---- MODULE Spec2Model ----
(***************************************************************************)
(* Model of the multi-source watchlist screening engine,                   *)
(* src/src/services/validation/watchlist_validator.py (WatchlistValidator). *)
(*                                                                         *)
(* Strings are sequences of one-character strings.  Python dicts are       *)
(* functions whose DOMAIN is the set of keys; Python None is the record    *)
(* None.  Confidences are integers in hundredths (0.9 is 90).  A timestamp *)
(* is a text [sep, day, hour]: sep is "T" for datetime.isoformat() and     *)
(* " " for SQLite's datetime('now'), and texts compare as SQLite compares  *)
(* TEXT values, character by character.                                    *)
(***************************************************************************)
EXTENDS Integers, Sequences, FiniteSets, TLC

(***************************************************************************)
(* Bounds of the model.                                                    *)
(***************************************************************************)
MaxDay == 1
MaxValidations == 1
MaxClockValidations == 2
TickHours == 12
MaxBatch == 2
MaxLen == 3
MaxTokens == 3

(***************************************************************************)
(* Program constants.                                                      *)
(***************************************************************************)
cache_duration_hours == 24
HoursPerDay == 24

None == [none |-> TRUE]

ValueError == [raised |-> "ValueError"]

TypeError == [raised |-> "TypeError"]

(***************************************************************************)
(* Python helpers.                                                         *)
(***************************************************************************)
DictGet(d, k, default) == IF k \in DOMAIN d THEN d[k] ELSE default

DictSet(d, k, v) == [q \in (DOMAIN d) \cup {k} |-> IF q = k THEN v ELSE d[q]]

EmptyDict == <<>>

\* The keys of a dict whose value is None (a JSON null) are listed under
\* "nulls" instead of being mapped.
NullKeys(d) == DictGet(d, "nulls", {})

\* A Python string value.
Str(t) == [str |-> t]

\* bool(v) for the values the program tests: None, "" and {} are false.
Truthy(v) == v # None /\ v # EmptyDict /\ v # Str("")

Max(a, b) == IF a >= b THEN a ELSE b

Range(s) == {s[i] : i \in DOMAIN s}

Min(a, b) == IF a <= b THEN a ELSE b

(***************************************************************************)
(* _normalize_name: strip, lower, collapse whitespace runs, then delete    *)
(* every character outside [a-z\s\-].                                      *)
(***************************************************************************)
LowerLetters == {"a", "b", "c", "d", "e", "f", "g", "h", "i", "j", "k", "l", "m",
                 "n", "o", "p", "q", "r", "s", "t", "u", "v", "w", "x", "y", "z"}

UpperSeq == <<"A", "B", "C", "D", "E", "F", "G", "H", "I", "J", "K", "L", "M",
              "N", "O", "P", "Q", "R", "S", "T", "U", "V", "W", "X", "Y", "Z">>

LowerSeq == <<"a", "b", "c", "d", "e", "f", "g", "h", "i", "j", "k", "l", "m",
              "n", "o", "p", "q", "r", "s", "t", "u", "v", "w", "x", "y", "z">>

IsSpace(ch) == ch = " "

LowerChar(ch) ==
    IF \E i \in DOMAIN UpperSeq : UpperSeq[i] = ch
    THEN LowerSeq[CHOOSE i \in DOMAIN UpperSeq : UpperSeq[i] = ch]
    ELSE ch

Lower(s) == [i \in DOMAIN s |-> LowerChar(s[i])]

RECURSIVE LStrip(_)
LStrip(s) == IF s # <<>> /\ IsSpace(Head(s)) THEN LStrip(Tail(s)) ELSE s

RECURSIVE RStrip(_)
RStrip(s) ==
    IF s # <<>> /\ IsSpace(s[Len(s)]) THEN RStrip(SubSeq(s, 1, Len(s) - 1)) ELSE s

Strip(s) == RStrip(LStrip(s))

\* re.sub(r'\s+', ' ', s)
RECURSIVE CollapseSpaces(_)
CollapseSpaces(s) ==
    IF s = <<>> THEN <<>>
    ELSE IF IsSpace(Head(s))
         THEN <<" ">> \o CollapseSpaces(LStrip(Tail(s)))
         ELSE <<Head(s)>> \o CollapseSpaces(Tail(s))

\* re.sub(r'[^a-z\s\-]', '', s)
RECURSIVE RemoveSpecial(_)
RemoveSpecial(s) ==
    IF s = <<>> THEN <<>>
    ELSE IF Head(s) \in LowerLetters \/ IsSpace(Head(s)) \/ Head(s) = "-"
         THEN <<Head(s)>> \o RemoveSpecial(Tail(s))
         ELSE RemoveSpecial(Tail(s))

_normalize_name(name) == RemoveSpecial(CollapseSpaces(Lower(Strip(name))))

\* hashlib.sha256(normalized.encode()).hexdigest(): a one-way, collision-free
\* digest of the normalized text.
_create_name_hash(name) == [sha256 |-> _normalize_name(name)]

(***************************************************************************)
(* Time.  datetime.now() is [day, hour]; its isoformat() is the text with  *)
(* separator "T", SQLite's datetime('now') the text with separator " ".    *)
(***************************************************************************)
Isoformat(dt) == [text |-> "timestamp", sep |-> "T", day |-> dt.day, hour |-> dt.hour]

SqlDatetime(dt) == [text |-> "timestamp", sep |-> " ", day |-> dt.day, hour |-> dt.hour]

SepOrd(sep) == IF sep = "T" THEN 84 ELSE 32

\* SQLite's > on two TEXT values: "YYYY-MM-DD", then the separator, then "HH".
TextGreater(a, b) ==
    \/ a.day > b.day
    \/ a.day = b.day /\ SepOrd(a.sep) > SepOrd(b.sep)
    \/ a.day = b.day /\ a.sep = b.sep /\ a.hour > b.hour

\* datetime.replace(hour=h)
ReplaceHour(dt, h) ==
    IF h \in 0 .. (HoursPerDay - 1) THEN [dt EXCEPT !.hour = h] ELSE ValueError

\* datetime.fromisoformat(text)
FromIsoformat(t) ==
    IF "text" \in DOMAIN t /\ t.text = "timestamp"
    THEN [day |-> t.day, hour |-> t.hour]
    ELSE ValueError

\* The instant dt as a number of hours, and dt plus a number of hours.
Hours(dt) == dt.day * HoursPerDay + dt.hour

PlusHours(dt, h) == [day |-> (Hours(dt) + h) \div HoursPerDay,
                     hour |-> (Hours(dt) + h) % HoursPerDay]

\* json.dumps / json.loads
JsonDumps(v) == [text |-> "json", value |-> v]

JsonLoads(t) ==
    IF "text" \in DOMAIN t /\ t.text = "json" THEN t.value ELSE ValueError

(***************************************************************************)
(* _name_matches: exact match, then at least two common tokens, then       *)
(* substring containment, on the normalized forms.                         *)
(***************************************************************************)
\* str.split(): the whitespace-separated tokens, empty tokens dropped.
RECURSIVE SplitFrom(_, _)
SplitFrom(s, cur) ==
    IF s = <<>> THEN (IF cur = <<>> THEN {} ELSE {cur})
    ELSE IF IsSpace(Head(s))
         THEN (IF cur = <<>> THEN {} ELSE {cur}) \cup SplitFrom(Tail(s), <<>>)
         ELSE SplitFrom(Tail(s), Append(cur, Head(s)))

SplitSet(s) == SplitFrom(s, <<>>)

\* Python's  a in b  on strings.
IsSubstring(a, b) ==
    \E i \in 0 .. Len(b) :
        i + Len(a) <= Len(b) /\ SubSeq(b, i + 1, i + Len(a)) = a

\* _name_matches taking one shared part for a significant overlap.
_name_matches_one_shared(input_name, watchlist_name) ==
    LET input_normalized == _normalize_name(input_name)
        watchlist_normalized == _normalize_name(watchlist_name)
        overlap == SplitSet(input_normalized) \cap SplitSet(watchlist_normalized)
    IN  \/ input_normalized = watchlist_normalized
        \/ Cardinality(overlap) >= 1
        \/ IsSubstring(input_normalized, watchlist_normalized)
        \/ IsSubstring(watchlist_normalized, input_normalized)

_name_matches(input_name, watchlist_name) ==
    LET input_normalized == _normalize_name(input_name)
        watchlist_normalized == _normalize_name(watchlist_name)
        overlap == SplitSet(input_normalized) \cap SplitSet(watchlist_normalized)
    IN  \/ input_normalized = watchlist_normalized
        \/ Cardinality(overlap) >= 2
        \/ IsSubstring(input_normalized, watchlist_normalized)
        \/ IsSubstring(watchlist_normalized, input_normalized)

(***************************************************************************)
(* The source registry (self.sources).  SourceOrder is the insertion order *)
(* of the dict, which is its iteration order.                              *)
(***************************************************************************)
SourceOrder == <<"ofac_sdn", "fbi_wanted", "world_check">>

SourceKeys == Range(SourceOrder)

_initialize_sources ==
    [s \in SourceKeys |->
        [enabled |-> TRUE, api_key |-> None,
         api_key_required |-> s \in {"ofac_sdn", "world_check"}]]

(***************************************************************************)
(* What the remote services answer.  world[s] is the reply source s gives  *)
(* to a request: a transport error, or a status with a JSON body.          *)
(***************************************************************************)
TransportError == [kind |-> "error"]

HttpReply(status, body) == [kind |-> "http", status |-> status, json |-> body]

Names == {<<"A", "l">>, <<"a", "l">>, <<>>}

RecordNames == {<<"a", "l">>, <<"b", "o">>}

OfacReplies ==
    {TransportError, HttpReply(503, EmptyDict)}
    \cup {HttpReply(200, [results |-> <<[name |-> r, programs |-> "SDGT"]>>]) :
            r \in RecordNames}

FbiReplies ==
    {TransportError}
    \cup {HttpReply(200, [items |-> <<[title |-> r, description |-> "wanted"]>>]) :
            r \in RecordNames}

GenericPayloads ==
    { [is_blocked |-> TRUE],
      [is_blocked |-> TRUE, confidence |-> 60, reasons |-> <<"pep", "sanction">>],
      [is_blocked |-> TRUE, confidence |-> 150],
      [is_blocked |-> TRUE, nulls |-> {"confidence"}],
      [is_blocked |-> FALSE] }

GenericReplies ==
    {TransportError} \cup {HttpReply(200, d) : d \in GenericPayloads}

Replies(s) ==
    IF s = "ofac_sdn" THEN OfacReplies
    ELSE IF s = "fbi_wanted" THEN FbiReplies
    ELSE GenericReplies

(***************************************************************************)
(* The source adapters.  Each returns a result dict or None.               *)
(***************************************************************************)
\* The first record of a list that matches the name, as the for loop finds it.
RECURSIVE FirstMatch(_, _, _)
FirstMatch(name, records, field) ==
    IF records = <<>> THEN None
    ELSE IF _name_matches(name, DictGet(Head(records), field, <<>>))
         THEN Head(records)
         ELSE FirstMatch(name, Tail(records), field)

_check_ofac_sdn(name, source, reply) ==
    IF ~Truthy(source.api_key) THEN None
    ELSE IF reply.kind = "error" THEN None
    ELSE IF reply.status = 200
    THEN LET hit == FirstMatch(name, DictGet(reply.json, "results", <<>>), "name")
         IN  IF hit # None
             THEN [is_blocked |-> TRUE, confidence |-> 90,
                   reasons |-> <<<<"OFAC SDN", DictGet(hit, "programs", <<>>)>>>>,
                   source_data |-> hit]
             ELSE [is_blocked |-> FALSE, confidence |-> 80]
    ELSE None

_check_fbi_wanted(name, source, reply) ==
    IF reply.kind = "error" THEN None
    ELSE IF reply.status = 200
    THEN LET hit == FirstMatch(name, DictGet(reply.json, "items", <<>>), "title")
         IN  IF hit # None
             THEN [is_blocked |-> TRUE, confidence |-> 95,
                   reasons |-> <<<<"FBI Most Wanted", DictGet(hit, "description", <<>>)>>>>,
                   source_data |-> hit]
             ELSE [is_blocked |-> FALSE, confidence |-> 80]
    ELSE None

_generic_api_check(name, source_name, source, reply) ==
    IF reply.kind = "error" THEN None
    ELSE IF reply.status = 200
    THEN LET data == reply.json
             confidence(default) ==
                 IF "confidence" \in NullKeys(data) THEN [nulls |-> {"confidence"}]
                 ELSE [confidence |-> DictGet(data, "confidence", default)]
         IN  IF DictGet(data, "is_blocked", FALSE)
             THEN [is_blocked |-> TRUE,
                   reasons |-> DictGet(data, "reasons", <<<<source_name, "match">>>>),
                   source_data |-> data] @@ confidence(80)
             ELSE [is_blocked |-> FALSE,
                   source_data |-> data] @@ confidence(70)
    ELSE None

_validate_against_source(name, source_name, source, reply) ==
    IF source_name = "ofac_sdn" THEN _check_ofac_sdn(name, source, reply)
    ELSE IF source_name = "fbi_wanted" THEN _check_fbi_wanted(name, source, reply)
    ELSE _generic_api_check(name, source_name, source, reply)

(***************************************************************************)
(* The cache table watchlist_cache.  A row is a record of its columns;     *)
(* name_hash is UNIQUE.                                                    *)
(***************************************************************************)
\* row[i] of a fetched row, with Python's 0-based index.
Column(row, i) == row[i + 1]

\* _get_cached_result reading created_at (row[6]) as last_updated and
\* raw_data (row[5]) as raw_data.
_get_cached_result_by_column(table, clock, name) ==
    LET name_hash == _create_name_hash(name)
        rows == {r \in table : /\ r.name_hash = name_hash
                               /\ TextGreater(r.expires_at, SqlDatetime(clock))}
    IN  IF rows = {} THEN None
        ELSE LET r == CHOOSE x \in rows : TRUE
                 row == <<r.full_name, r.is_blocked, r.sources, r.confidence,
                          r.reasons, r.raw_data, r.created_at>>
                 last_updated == FromIsoformat(Column(row, 6))
                 raw_data == JsonLoads(Column(row, 5))
             IN  IF ValueError \in {JsonLoads(Column(row, 2)), JsonLoads(Column(row, 4)),
                                    last_updated, raw_data}
                 THEN None
                 ELSE [name |-> Column(row, 0),
                       is_blocked |-> Column(row, 1),
                       sources |-> JsonLoads(Column(row, 2)),
                       confidence |-> Column(row, 3),
                       reasons |-> JsonLoads(Column(row, 4)),
                       last_updated |-> last_updated,
                       raw_data |-> raw_data]

_get_cached_result(table, clock, name) ==
    LET name_hash == _create_name_hash(name)
        rows == {r \in table : /\ r.name_hash = name_hash
                               /\ TextGreater(r.expires_at, SqlDatetime(clock))}
    IN  IF rows = {} THEN None
        ELSE LET r == CHOOSE x \in rows : TRUE
                 row == <<r.full_name, r.is_blocked, r.sources, r.confidence,
                          r.reasons, r.raw_data, r.created_at>>
                 last_updated == FromIsoformat(Column(row, 5))
                 raw_data == JsonLoads(Column(row, 6))
             IN  IF ValueError \in {JsonLoads(Column(row, 2)), JsonLoads(Column(row, 4)),
                                    last_updated, raw_data}
                 THEN None
                 ELSE [name |-> Column(row, 0),
                       is_blocked |-> Column(row, 1),
                       sources |-> JsonLoads(Column(row, 2)),
                       confidence |-> Column(row, 3),
                       reasons |-> JsonLoads(Column(row, 4)),
                       last_updated |-> last_updated,
                       raw_data |-> raw_data]

\* _cache_result computing the expiry by adding the hours, and inserting the
\* row without replacing the one the table holds under the same name_hash.
_cache_result_insert_only(table, clock, result) ==
    LET name_hash == _create_name_hash(result.name)
        expires_at == PlusHours(clock, cache_duration_hours)
    IN  table \cup {[name_hash |-> name_hash,
                     full_name |-> result.name,
                     is_blocked |-> result.is_blocked,
                     sources |-> JsonDumps(result.sources),
                     confidence |-> result.confidence,
                     reasons |-> JsonDumps(result.reasons),
                     raw_data |-> JsonDumps(result.raw_data),
                     created_at |-> SqlDatetime(clock),
                     expires_at |-> Isoformat(expires_at)]}

_cache_result(table, clock, result) ==
    LET name_hash == _create_name_hash(result.name)
        expires_at == ReplaceHour(clock, clock.hour + cache_duration_hours)
    IN  IF expires_at = ValueError THEN table
        ELSE {r \in table : r.name_hash # name_hash}
             \cup {[name_hash |-> name_hash,
                    full_name |-> result.name,
                    is_blocked |-> result.is_blocked,
                    sources |-> JsonDumps(result.sources),
                    confidence |-> result.confidence,
                    reasons |-> JsonDumps(result.reasons),
                    raw_data |-> JsonDumps(result.raw_data),
                    created_at |-> SqlDatetime(clock),
                    expires_at |-> Isoformat(expires_at)]}

(***************************************************************************)
(* validate_name: the aggregation loop over                                *)
(* zip(self.sources.keys(), source_results).                               *)
(***************************************************************************)
IsException(v) == "raised" \in DOMAIN v

Zip(a, b) == [i \in 1 .. Min(Len(a), Len(b)) |-> <<a[i], b[i]>>]

\* ProcessOne blocking on any answer a source gives, blocked or clear.
ProcessOne_any_answer(result, source_name, source_result) ==
    IF IsException(source_result) THEN result
    ELSE IF Truthy(source_result) /\ "confidence" \in NullKeys(source_result)
    THEN TypeError
    ELSE LET r1 == IF Truthy(source_result)
                   THEN [result EXCEPT
                           !.is_blocked = TRUE,
                           !.sources = Append(@, source_name),
                           !.reasons = @ \o DictGet(source_result, "reasons", <<>>),
                           !.confidence = Max(@, DictGet(source_result, "confidence", 0))]
                   ELSE result
         IN  [r1 EXCEPT !.raw_data = DictSet(@, source_name, source_result)]

\* ProcessOne raising the confidence with every answer, blocked or clear.
ProcessOne_every_confidence(result, source_name, source_result) ==
    IF IsException(source_result) THEN result
    ELSE IF Truthy(source_result) /\ "confidence" \in NullKeys(source_result)
    THEN TypeError
    ELSE LET r1 == IF Truthy(source_result) /\ DictGet(source_result, "is_blocked", FALSE)
                   THEN [result EXCEPT
                           !.is_blocked = TRUE,
                           !.sources = Append(@, source_name),
                           !.reasons = @ \o DictGet(source_result, "reasons", <<>>)]
                   ELSE result
             r2 == IF Truthy(source_result)
                   THEN [r1 EXCEPT !.confidence =
                           Max(@, DictGet(source_result, "confidence", 0))]
                   ELSE r1
         IN  [r2 EXCEPT !.raw_data = DictSet(@, source_name, source_result)]

\* ProcessOne marking the verdict blocked without naming the source.
ProcessOne_unnamed(result, source_name, source_result) ==
    IF IsException(source_result) THEN result
    ELSE IF /\ Truthy(source_result)
            /\ DictGet(source_result, "is_blocked", FALSE)
            /\ "confidence" \in NullKeys(source_result)
    THEN TypeError
    ELSE LET r1 == IF Truthy(source_result) /\ DictGet(source_result, "is_blocked", FALSE)
                   THEN [result EXCEPT
                           !.is_blocked = TRUE,
                           !.reasons = @ \o DictGet(source_result, "reasons", <<>>),
                           !.confidence = Max(@, DictGet(source_result, "confidence", 0))]
                   ELSE result
         IN  [r1 EXCEPT !.raw_data = DictSet(@, source_name, source_result)]

\* max(result.confidence, None) raises TypeError.
ProcessOne(result, source_name, source_result) ==
    IF IsException(source_result) THEN result
    ELSE IF /\ Truthy(source_result)
            /\ DictGet(source_result, "is_blocked", FALSE)
            /\ "confidence" \in NullKeys(source_result)
    THEN TypeError
    ELSE LET r1 == IF Truthy(source_result) /\ DictGet(source_result, "is_blocked", FALSE)
                   THEN [result EXCEPT
                           !.is_blocked = TRUE,
                           !.sources = Append(@, source_name),
                           !.reasons = @ \o DictGet(source_result, "reasons", <<>>),
                           !.confidence = Max(@, DictGet(source_result, "confidence", 0))]
                   ELSE result
         IN  [r1 EXCEPT !.raw_data = DictSet(@, source_name, source_result)]

RECURSIVE ProcessResults(_, _)
ProcessResults(result, pairs) ==
    IF pairs = <<>> \/ IsException(result) THEN result
    ELSE ProcessResults(ProcessOne(result, Head(pairs)[1], Head(pairs)[2]), Tail(pairs))

\* The registry keys of the enabled sources, in iteration order.
RECURSIVE EnabledIn(_, _)
EnabledIn(order, registry) ==
    IF order = <<>> THEN <<>>
    ELSE IF registry[Head(order)].enabled
         THEN <<Head(order)>> \o EnabledIn(Tail(order), registry)
         ELSE EnabledIn(Tail(order), registry)

InitialResult(name, clock) ==
    [name |-> name, is_blocked |-> FALSE, sources |-> <<>>, confidence |-> 0,
     reasons |-> <<>>, last_updated |-> clock, raw_data |-> EmptyDict]

(***************************************************************************)
(* State.                                                                  *)
(***************************************************************************)
VARIABLES
    sources,        \* self.sources: registry key -> [enabled, api_key]
    cache,          \* the rows of watchlist_cache
    now,            \* the wall clock, [day, hour]
    calls,          \* the validate_name coroutines
    last,           \* the last verdict a caller kept, until the registry or cache is touched
    remaining,      \* number of validate_name calls the callers still make
    batch,          \* the validate_batch call
    probe           \* a string and what _normalize_name makes of it

vars == <<sources, cache, now, calls, last, remaining, batch, probe>>

CallIds == 1 .. MaxBatch

\* The coroutine of a caller that awaits validate_name directly.
Callers == {1}

Pending == [pending |-> TRUE]

NoLast == [none |-> TRUE]

\* hit, started, completed and api_keys record the history of a call: whether
\* it was served from the cache, when it began, the order its tasks finished
\* in, and the API key each source had when the fan-out was set up.
IdleCall == [pc |-> "idle", name |-> <<>>, tasks |-> <<>>, source_results |-> <<>>,
             result |-> None, hit |-> FALSE, started |-> None, completed |-> <<>>,
             api_keys |-> <<>>]

\* finished records the order in which the coroutines of a batch ended, table
\* the cache rows at the time of the call.
IdleBatch == [pc |-> "idle", names |-> <<>>, world |-> <<>>, finished |-> <<>>,
              table |-> {}, results |-> <<>>]

NoProbe == [pc |-> "idle"]

ApiKeys == {Str("key")}

\* Rows a database file can hold when the validator is constructed on it.
StoredExpiries == {[day |-> 0, hour |-> 12], [day |-> 1, hour |-> 12]}

StoredRow(name, expires) ==
    [name_hash |-> _create_name_hash(name),
     full_name |-> name,
     is_blocked |-> FALSE,
     sources |-> JsonDumps(<<>>),
     confidence |-> 0,
     reasons |-> JsonDumps(<<>>),
     raw_data |-> JsonDumps(EmptyDict),
     created_at |-> SqlDatetime([day |-> 0, hour |-> 0]),
     expires_at |-> Isoformat(expires)]

StoredTables == {{}} \cup {{StoredRow(<<"a", "l">>, e)} : e \in StoredExpiries}

StartHours == {9}

InitAt(hours, tables, budget, on) ==
    /\ sources = [s \in SourceKeys |-> [_initialize_sources[s] EXCEPT !.enabled = s \in on]]
    /\ cache \in tables
    /\ now \in {[day |-> 0, hour |-> h] : h \in hours}
    /\ calls = [c \in CallIds |-> IdleCall]
    /\ last = NoLast
    /\ remaining = budget
    /\ batch = IdleBatch
    /\ probe = NoProbe

Init == InitAt(StartHours, StoredTables, MaxValidations, SourceKeys)

\* A returned verdict stays visible until the caller takes it; nothing else
\* runs in between.
NoneDone == \A c \in CallIds : calls[c].pc \notin {"done", "raised"}

(***************************************************************************)
(* Actions.                                                                *)
(***************************************************************************)
\* validate_name up to its first suspension: the cache lookup and, on a miss,
\* the creation of one task per enabled source.
validate_name(c, name) ==
    /\ NoneDone
    /\ calls[c].pc = "idle"
    /\ remaining > 0
    /\ remaining' = remaining - 1
    /\ LET cached_result == _get_cached_result(cache, now, name)
           result == InitialResult(name, now)
           validation_tasks == EnabledIn(SourceOrder, sources)
       IN  IF Truthy(cached_result)
           THEN /\ calls' = [calls EXCEPT ![c] =
                        [pc |-> "done", name |-> name, tasks |-> <<>>,
                         source_results |-> <<>>, result |-> cached_result, hit |-> TRUE,
                         started |-> now, completed |-> <<>>, api_keys |-> <<>>]]
                /\ UNCHANGED cache
           ELSE IF validation_tasks = <<>>
           THEN /\ calls' = [calls EXCEPT ![c] =
                        [pc |-> "done", name |-> name, tasks |-> <<>>,
                         source_results |-> <<>>, result |-> result, hit |-> FALSE,
                         started |-> now, completed |-> <<>>, api_keys |-> <<>>]]
                /\ cache' = _cache_result(cache, now, result)
           ELSE /\ calls' = [calls EXCEPT ![c] =
                        [pc |-> "fanout", name |-> name, tasks |-> validation_tasks,
                         source_results |-> [i \in DOMAIN validation_tasks |-> Pending],
                         result |-> result, hit |-> FALSE,
                         started |-> now, completed |-> <<>>,
                         api_keys |-> [s \in DOMAIN sources |-> sources[s].api_key]]]
                /\ UNCHANGED cache
    /\ UNCHANGED <<sources, now, last, batch, probe>>

\* One task of the gather runs _validate_against_source to completion, the
\* remote service answering with reply.
SourceReply(c, i, reply) ==
    /\ NoneDone
    /\ calls[c].pc = "fanout"
    /\ calls[c].source_results[i] = Pending
    /\ calls' = [calls EXCEPT
                   ![c].source_results[i] =
                       _validate_against_source(calls[c].name, calls[c].tasks[i],
                                                sources[calls[c].tasks[i]], reply),
                   ![c].completed = Append(@, i)]
    /\ UNCHANGED <<sources, cache, now, last, remaining, batch, probe>>

SourceCheck(c, i) ==
    /\ i \in DOMAIN calls[c].tasks
    /\ \E reply \in Replies(calls[c].tasks[i]) : SourceReply(c, i, reply)


\* Aggregate processing the results in the order the tasks finished.
Aggregate_as_completed(c) ==
    /\ NoneDone
    /\ calls[c].pc = "fanout"
    /\ \A i \in DOMAIN calls[c].tasks : calls[c].source_results[i] # Pending
    /\ LET finished == [j \in DOMAIN calls[c].completed |->
                          calls[c].source_results[calls[c].completed[j]]]
           result == ProcessResults(calls[c].result, Zip(SourceOrder, finished))
       IN  IF IsException(result)
           THEN /\ calls' = [calls EXCEPT ![c].pc = "raised", ![c].result = result]
                /\ UNCHANGED cache
           ELSE /\ calls' = [calls EXCEPT ![c].pc = "done", ![c].result = result]
                /\ cache' = _cache_result(cache, now, result)
    /\ UNCHANGED <<sources, now, last, remaining, batch, probe>>

\* Aggregate going ahead as soon as one task has finished.
Aggregate_first_finished(c) ==
    /\ NoneDone
    /\ calls[c].pc = "fanout"
    /\ \E i \in DOMAIN calls[c].tasks : calls[c].source_results[i] # Pending
    /\ LET result == ProcessResults(calls[c].result,
                                    Zip(SourceOrder, calls[c].source_results))
       IN  IF IsException(result)
           THEN /\ calls' = [calls EXCEPT ![c].pc = "raised", ![c].result = result]
                /\ UNCHANGED cache
           ELSE /\ calls' = [calls EXCEPT ![c].pc = "done", ![c].result = result]
                /\ cache' = _cache_result(cache, now, result)
    /\ UNCHANGED <<sources, now, last, remaining, batch, probe>>

\* The gather has joined: process the results, cache the verdict, return.
Aggregate(c) ==
    /\ NoneDone
    /\ calls[c].pc = "fanout"
    /\ \A i \in DOMAIN calls[c].tasks : calls[c].source_results[i] # Pending
    /\ LET result == ProcessResults(calls[c].result,
                                    Zip(SourceOrder, calls[c].source_results))
       IN  IF IsException(result)
           THEN /\ calls' = [calls EXCEPT ![c].pc = "raised", ![c].result = result]
                /\ UNCHANGED cache
           ELSE /\ calls' = [calls EXCEPT ![c].pc = "done", ![c].result = result]
                /\ cache' = _cache_result(cache, now, result)
    /\ UNCHANGED <<sources, now, last, remaining, batch, probe>>

\* The caller receives the verdict, or the exception.
Return(c) ==
    /\ calls[c].pc \in {"done", "raised"}
    /\ calls' = [calls EXCEPT ![c] = IdleCall]
    /\ UNCHANGED <<sources, cache, now, last, remaining, batch, probe>>

\* The caller receives the verdict and keeps it to compare with the next one.
ReturnKept(c) ==
    /\ calls[c].pc \in {"done", "raised"}
    /\ last' = IF calls[c].pc = "raised" THEN NoLast
               ELSE [name |-> calls[c].name, result |-> calls[c].result, at |-> now]
    /\ calls' = [calls EXCEPT ![c] = IdleCall]
    /\ UNCHANGED <<sources, cache, now, remaining, batch, probe>>

configure_api_key(source_name, api_key) ==
    /\ NoneDone
    /\ IF source_name \in DOMAIN sources
       THEN sources' = [sources EXCEPT ![source_name].api_key = api_key]
       ELSE UNCHANGED sources
    /\ last' = NoLast
    /\ UNCHANGED <<cache, now, calls, remaining, batch, probe>>

\* enable_source writing the flag of every source of the registry.
enable_source_every_source(source_name, enabled) ==
    /\ NoneDone
    /\ IF source_name \in DOMAIN sources
       THEN sources' = [s \in DOMAIN sources |-> [sources[s] EXCEPT !.enabled = enabled]]
       ELSE UNCHANGED sources
    /\ last' = NoLast
    /\ UNCHANGED <<cache, now, calls, remaining, batch, probe>>

enable_source(source_name, enabled) ==
    /\ NoneDone
    /\ IF source_name \in DOMAIN sources
       THEN sources' = [sources EXCEPT ![source_name].enabled = enabled]
       ELSE UNCHANGED sources
    /\ last' = NoLast
    /\ UNCHANGED <<cache, now, calls, remaining, batch, probe>>

\* The table validation_logs: created empty with the database, and no
\* statement of the program inserts into it.
validation_logs == {}

\* get_validation_stats on a table, the log rows, the clock and the registry.
get_validation_stats(table, logs, clock, registry) ==
    [total_cached_results |-> Cardinality(table),
     total_blocked_names |-> Cardinality({r \in table : r.is_blocked = TRUE}),
     recent_validations_24h |->
        Cardinality({l \in logs :
            TextGreater(l.timestamp, SqlDatetime(PlusHours(clock, 0 - HoursPerDay)))}),
     enabled_sources |-> EnabledIn(SourceOrder, registry),
     cache_duration_hours |-> cache_duration_hours]

\* clear_cache deleting only the records that have expired.
clear_cache_expired_only ==
    /\ NoneDone
    /\ cache' = {r \in cache : Hours(FromIsoformat(r.expires_at)) > Hours(now)}
    /\ last' = NoLast
    /\ UNCHANGED <<sources, now, calls, remaining, batch, probe>>

clear_cache ==
    /\ NoneDone
    /\ cache' = {}
    /\ last' = NoLast
    /\ UNCHANGED <<sources, now, calls, remaining, batch, probe>>

\* Time passes.
Tick ==
    /\ NoneDone
    /\ Hours(now) + TickHours < (MaxDay + 1) * HoursPerDay
    /\ now' = PlusHours(now, TickHours)
    /\ UNCHANGED <<sources, cache, calls, last, remaining, batch, probe>>

SourceArgs == SourceKeys \cup {"unknown_source"}

\* The sources whose key the callers configure: ofac_sdn, the one adapter that
\* refuses to run without a key, and a name that is not in the registry.
KeyArgs == {"ofac_sdn", "unknown_source"}

Next ==
    \/ \E c \in Callers, name \in Names : validate_name(c, name)
    \/ \E c \in Callers, i \in 1 .. Len(SourceOrder) : SourceCheck(c, i)
    \/ \E c \in Callers : Aggregate(c)
    \/ \E c \in Callers : Return(c)
    \/ \E s \in KeyArgs, k \in ApiKeys : configure_api_key(s, k)
    \/ \E s \in SourceArgs, e \in BOOLEAN : enable_source(s, e)
    \/ clear_cache

Spec == Init /\ [][Next]_vars

(***************************************************************************)
(* The same engine with the clock running, started at any hour of the day *)
(* with every source but ClockSources disabled beforehand and the registry *)
(* left alone afterwards.                                                  *)
(***************************************************************************)
ClockSources == {"fbi_wanted"}

InitClock == InitAt(0 .. (HoursPerDay - 1), StoredTables, MaxClockValidations, ClockSources)

NextClock ==
    \/ \E c \in Callers, name \in Names : validate_name(c, name)
    \/ \E c \in Callers, i \in 1 .. Len(SourceOrder) : SourceCheck(c, i)
    \/ \E c \in Callers : Aggregate(c)
    \/ \E c \in Callers : ReturnKept(c)
    \/ clear_cache
    \/ Tick

SpecClock == InitClock /\ [][NextClock]_vars

(***************************************************************************)
(* The engine on a database that holds a record, with every source enabled *)
(* and the registry left alone.  The event loop runs every task that is     *)
(* ready: a source check that has been started finishes, and a gather whose *)
(* tasks have all finished resumes its coroutine.                           *)
(***************************************************************************)
\* One record, or a record next to one of another name that has expired.
JoinTables ==
    (StoredTables \ {{}})
    \cup {{StoredRow(<<"a", "l">>, [day |-> 1, hour |-> 12]),
           StoredRow(<<"b", "o">>, [day |-> 0, hour |-> 0])}}

InitJoin == InitAt(StartHours, JoinTables, MaxValidations, SourceKeys)

NextJoin ==
    \/ \E c \in Callers, name \in Names : validate_name(c, name)
    \/ \E c \in Callers, i \in 1 .. Len(SourceOrder) : SourceCheck(c, i)
    \/ \E c \in Callers : Aggregate(c)
    \/ \E c \in Callers : Return(c)
    \/ clear_cache

FairJoin ==
    /\ WF_vars(\E c \in Callers, i \in 1 .. Len(SourceOrder) : SourceCheck(c, i))
    /\ WF_vars(\E c \in Callers : Aggregate(c))

SpecJoin == InitJoin /\ [][NextJoin]_vars /\ FairJoin

(***************************************************************************)
(* validate_batch: one validate_name coroutine per name, joined by          *)
(* asyncio.gather.  The sources are those of BatchSources, and during one   *)
(* batch every source keeps giving the same reply, batch.world.             *)
(***************************************************************************)
BatchSources == {"fbi_wanted", "world_check"}

RECURSIVE SeqsUpTo(_, _)
SeqsUpTo(S, n) ==
    IF n = 0 THEN {<<>>}
    ELSE LET shorter == SeqsUpTo(S, n - 1)
         IN  shorter \cup {Append(q, x) : q \in shorter, x \in S}

BatchNames == SeqsUpTo(Names, MaxBatch)

BatchWorlds ==
    {w \in [BatchSources -> UNION {Replies(s) : s \in BatchSources}] :
        \A s \in BatchSources : w[s] \in Replies(s)}

\* The database is empty or holds a record that has not expired.
BatchTables == {{}, {StoredRow(<<"a", "l">>, [day |-> 1, hour |-> 12])}}

InitBatch == InitAt(StartHours, BatchTables, MaxBatch, BatchSources)

\* validate_batch up to its await: the coroutines are created, none has run.
validate_batch(names, world) ==
    /\ batch.pc = "idle"
    /\ batch' = [pc |-> "running", names |-> names, world |-> world,
                 finished |-> <<>>, table |-> cache, results |-> <<>>]
    /\ UNCHANGED <<sources, cache, now, calls, last, remaining, probe>>

\* The event loop starts the coroutines in the order gather received them.
BatchTask(c) ==
    /\ batch.pc = "running"
    /\ c \in DOMAIN batch.names
    /\ \A j \in 1 .. (c - 1) : calls[j].pc # "idle"
    /\ validate_name(c, batch.names[c])

BatchSourceCheck(c, i) ==
    /\ batch.pc = "running"
    /\ i \in DOMAIN calls[c].tasks
    /\ SourceReply(c, i, batch.world[calls[c].tasks[i]])

\* A coroutine of the batch has ended; gather keeps its outcome.  An
\* exception ends the gather at once.
Join(c) ==
    /\ batch.pc = "running"
    /\ calls[c].pc \in {"done", "raised"}
    /\ batch' = [batch EXCEPT !.finished = Append(@, c),
                              !.pc = IF calls[c].pc = "raised" THEN "raised" ELSE @]
    /\ calls' = [calls EXCEPT ![c].pc = "joined"]
    /\ UNCHANGED <<sources, cache, now, last, remaining, probe>>

\* BatchReturn listing the verdicts in the order the coroutines ended.
BatchReturn_as_completed ==
    /\ batch.pc = "running"
    /\ \A c \in DOMAIN batch.names : calls[c].pc = "joined"
    /\ batch' = [batch EXCEPT
                   !.pc = "done",
                   !.results = [j \in DOMAIN batch.names |-> calls[batch.finished[j]].result]]
    /\ UNCHANGED <<sources, cache, now, calls, last, remaining, probe>>

\* gather returns the verdicts in the order of the coroutines it was given.
BatchReturn ==
    /\ batch.pc = "running"
    /\ \A c \in DOMAIN batch.names : calls[c].pc = "joined"
    /\ batch' = [batch EXCEPT
                   !.pc = "done",
                   !.results = [c \in DOMAIN batch.names |-> calls[c].result]]
    /\ UNCHANGED <<sources, cache, now, calls, last, remaining, probe>>

NextBatch ==
    \/ \E names \in BatchNames, world \in BatchWorlds : validate_batch(names, world)
    \/ \E c \in CallIds : BatchTask(c)
    \/ \E c \in CallIds, i \in 1 .. Len(SourceOrder) : BatchSourceCheck(c, i)
    \/ \E c \in CallIds : Aggregate(c)
    \/ \E c \in CallIds : Join(c)
    \/ BatchReturn

SpecBatch == InitBatch /\ [][NextBatch]_vars

(***************************************************************************)
(* _normalize_name applied to a string, and again to what it returned.     *)
(***************************************************************************)
Alphabet == {"a", "B", " ", "1", "-"}

Inputs == SeqsUpTo(Alphabet, MaxLen)

InitNorm ==
    /\ sources = _initialize_sources
    /\ cache = {}
    /\ now \in {[day |-> 0, hour |-> h] : h \in StartHours}
    /\ calls = [c \in CallIds |-> IdleCall]
    /\ last = NoLast
    /\ remaining = 0
    /\ batch = IdleBatch
    /\ probe \in {[pc |-> "input", name |-> n] : n \in Inputs}

Normalize ==
    /\ probe.pc = "input"
    /\ probe' = [pc |-> "once", name |-> probe.name,
                 normalized |-> _normalize_name(probe.name)]
    /\ UNCHANGED <<sources, cache, now, calls, last, remaining, batch>>

NormalizeAgain ==
    /\ probe.pc = "once"
    /\ probe' = [pc |-> "twice", name |-> probe.name,
                 normalized |-> probe.normalized,
                 again |-> _normalize_name(probe.normalized)]
    /\ UNCHANGED <<sources, cache, now, calls, last, remaining, batch>>

NextNorm == Normalize \/ NormalizeAgain

SpecNorm == InitNorm /\ [][NextNorm]_vars

(***************************************************************************)
(* _name_matches applied to a query and the name of a watchlist record.    *)
(* The names are made of up to MaxTokens words separated by spaces: an      *)
(* initial, a surname followed by a comma, a middle initial and a number.   *)
(***************************************************************************)
Words == {<<"j">>, <<"s", ",">>, <<"m">>, <<"7">>}

RECURSIVE JoinWords(_)
JoinWords(ws) ==
    IF ws = <<>> THEN <<>>
    ELSE IF Len(ws) = 1 THEN Head(ws)
    ELSE Head(ws) \o <<" ">> \o JoinWords(Tail(ws))

MatchNames == {JoinWords(ws) : ws \in SeqsUpTo(Words, MaxTokens)}

ExampleQuery == <<"J", "o", "h", "n", " ", "S", "m", "i", "t", "h">>

ExampleRecord == <<"S", "m", "i", "t", "h", ",", " ", "J", "o", "h", "n", " ",
                   "M", "i", "c", "h", "a", "e", "l">>

MatchPairs == (MatchNames \X MatchNames) \cup {<<ExampleQuery, ExampleRecord>>}

InitMatch ==
    /\ sources = _initialize_sources
    /\ cache = {}
    /\ now \in {[day |-> 0, hour |-> h] : h \in StartHours}
    /\ calls = [c \in CallIds |-> IdleCall]
    /\ last = NoLast
    /\ remaining = 0
    /\ batch = IdleBatch
    /\ probe \in {[pc |-> "pair", input_name |-> pr[1], watchlist_name |-> pr[2]] :
                    pr \in MatchPairs}

Match ==
    /\ probe.pc = "pair"
    /\ probe' = [pc |-> "matched", input_name |-> probe.input_name,
                 watchlist_name |-> probe.watchlist_name,
                 matches |-> _name_matches(probe.input_name, probe.watchlist_name)]
    /\ UNCHANGED <<sources, cache, now, calls, last, remaining, batch>>

NextMatch == Match

SpecMatch == InitMatch /\ [][NextMatch]_vars

(***************************************************************************)
(* What a verdict is expected to be, read off the tasks of a call and the  *)
(* answers they got.                                                       *)
(***************************************************************************)
Fresh(c) == calls[c].pc = "done" /\ ~calls[c].hit

Answered(c, i) == calls[c].source_results[i] # None

Blocking(c, i) ==
    Answered(c, i) /\ DictGet(calls[c].source_results[i], "is_blocked", FALSE) = TRUE

BlockingTasks(c) == {i \in DOMAIN calls[c].tasks : Blocking(c, i)}

AnsweredTasks(c) == {i \in DOMAIN calls[c].tasks : Answered(c, i)}

ConfidenceOf(c, i) == DictGet(calls[c].source_results[i], "confidence", 0)

SetMax(S) == IF S = {} THEN 0 ELSE CHOOSE m \in S : \A x \in S : x <= m

RECURSIVE BlockingSourcesFrom(_, _)
BlockingSourcesFrom(c, i) ==
    IF i > Len(calls[c].tasks) THEN <<>>
    ELSE (IF Blocking(c, i) THEN <<calls[c].tasks[i]>> ELSE <<>>)
         \o BlockingSourcesFrom(c, i + 1)

RECURSIVE BlockingReasonsFrom(_, _)
BlockingReasonsFrom(c, i) ==
    IF i > Len(calls[c].tasks) THEN <<>>
    ELSE (IF Blocking(c, i)
          THEN DictGet(calls[c].source_results[i], "reasons", <<>>)
          ELSE <<>>)
         \o BlockingReasonsFrom(c, i + 1)

KeyedBy(r, name) == r.name_hash = _create_name_hash(name)

Expired(r, clock) == Hours(FromIsoformat(r.expires_at)) <= Hours(clock)

(***************************************************************************)
(* Claims.                                                                 *)
(***************************************************************************)
\* C1: when validate_name has completed on a cache miss, the cache table holds
\* a record keyed by the hash of the name that carries the returned verdict and
\* expires cache_duration_hours after the time of the write, at every hour of
\* the day.
C1_MissWritesRecord ==
    \A c \in CallIds :
        Fresh(c) =>
            \E r \in cache :
                /\ KeyedBy(r, calls[c].name)
                /\ r.is_blocked = calls[c].result.is_blocked
                /\ r.confidence = calls[c].result.confidence
                /\ JsonLoads(r.sources) = calls[c].result.sources
                /\ JsonLoads(r.reasons) = calls[c].result.reasons
                /\ JsonLoads(r.raw_data) = calls[c].result.raw_data
                /\ FromIsoformat(r.expires_at) = PlusHours(now, cache_duration_hours)

\* C2: a second validate_name of the same name, begun less than the cache TTL
\* after the first returned and with no registry or cache operation in
\* between, issues no source check and returns a verdict equal to the first
\* in every field.
C2_SecondCallServedFromCache ==
    \A c \in CallIds :
        ( /\ calls[c].pc = "done"
          /\ last # NoLast
          /\ last.name = calls[c].name
          /\ Hours(calls[c].started) - Hours(last.at) < cache_duration_hours )
        => /\ calls[c].completed = <<>>
           /\ calls[c].result = last.result

\* C3: a cache record whose expires_at is at or before the current time is
\* never returned as a hit: _get_cached_result gives None for it, and a
\* verdict served from the cache comes from a record that has not expired.
C3_ExpiredNeverHit ==
    /\ \A r \in cache, n \in Names :
           KeyedBy(r, n) /\ Expired(r, now) => _get_cached_result(cache, now, n) = None
    /\ \A c \in CallIds :
           calls[c].pc = "done" /\ calls[c].hit =>
               \E r \in cache : KeyedBy(r, calls[c].name) /\ ~Expired(r, now)

\* A validate_name has just found an expired record for its name and has set
\* up the fan-out.
C3_Witness ==
    \E c \in CallIds :
        /\ calls[c].pc = "fanout"
        /\ calls[c].started = now
        /\ calls[c].completed = <<>>
        /\ \E r \in cache : KeyedBy(r, calls[c].name) /\ Expired(r, now)

\* C4: when validate_name finds a record for the hash of its name that has not
\* expired, it returns that record, invokes no source check and leaves the
\* cache table unchanged.
C4_HitReturnsRecord ==
    [][ \A c \in CallIds :
          ( /\ calls[c].pc = "idle"
            /\ calls'[c].pc # "idle"
            /\ \E r \in cache : KeyedBy(r, calls'[c].name) /\ ~Expired(r, now) )
          => /\ calls'[c].pc = "done"
             /\ calls'[c].hit
             /\ cache' = cache
             /\ \E r \in cache :
                  /\ KeyedBy(r, calls'[c].name)
                  /\ calls'[c].result.name = r.full_name
                  /\ calls'[c].result.is_blocked = r.is_blocked
                  /\ calls'[c].result.confidence = r.confidence
                  /\ calls'[c].result.sources = JsonLoads(r.sources)
                  /\ calls'[c].result.reasons = JsonLoads(r.reasons)
                  /\ calls'[c].result.raw_data = JsonLoads(r.raw_data) ]_vars

\* C5: the verdict of a fresh validate_name is blocked if and only if at least
\* one source enabled at the fan-out answered blocked.
C5_BlockedIffSomeSourceBlocked ==
    \A c \in CallIds :
        Fresh(c) => (calls[c].result.is_blocked <=> BlockingTasks(c) # {})

\* A fresh verdict is blocked while one source gave no data and another
\* answered clear.
C5_Witness ==
    \E c \in CallIds :
        /\ Fresh(c)
        /\ calls[c].result.is_blocked
        /\ \E i \in DOMAIN calls[c].tasks : ~Answered(c, i)
        /\ \E i \in DOMAIN calls[c].tasks : Answered(c, i) /\ ~Blocking(c, i)

\* C6: the sources of a fresh verdict are exactly the registry names of the
\* enabled sources whose own check answered blocked.
C6_SourcesAreTheBlockingOnes ==
    \A c \in CallIds :
        Fresh(c) =>
            Range(calls[c].result.sources) = {calls[c].tasks[i] : i \in BlockingTasks(c)}

\* C7: when no source answered blocked, the confidence of a fresh verdict is
\* the maximum confidence of the sources that answered, and 0 when none did.
C7_ClearConfidenceIsMaxOfAnswers ==
    \A c \in CallIds :
        Fresh(c) /\ BlockingTasks(c) = {} =>
            calls[c].result.confidence =
                SetMax({ConfidenceOf(c, i) : i \in AnsweredTasks(c)})

C10_NoDataLeavesVerdict ==
    \A c \in CallIds :
        ( /\ Fresh(c)
          /\ BlockingTasks(c) # {}
          /\ \E i \in DOMAIN calls[c].tasks : ~Answered(c, i) )
        => /\ calls[c].result.is_blocked
           /\ calls[c].result.confidence =
                  SetMax({ConfidenceOf(c, i) : i \in BlockingTasks(c)})
           /\ calls[c].result.sources = BlockingSourcesFrom(c, 1)
           /\ calls[c].result.reasons = BlockingReasonsFrom(c, 1)

\* C11: when every source enabled at the fan-out gave no data, the fresh
\* verdict is not blocked, has confidence 0, names no source and no reason,
\* and raw_data marks every one of those sources, and only them, as no data.
C11_AllNoDataIsClearAndMarked ==
    \A c \in CallIds :
        ( /\ Fresh(c)
          /\ calls[c].tasks # <<>>
          /\ AnsweredTasks(c) = {} )
        => /\ ~calls[c].result.is_blocked
           /\ calls[c].result.confidence = 0
           /\ calls[c].result.sources = <<>>
           /\ calls[c].result.reasons = <<>>
           /\ DOMAIN calls[c].result.raw_data = Range(calls[c].tasks)
           /\ \A s \in Range(calls[c].tasks) : calls[c].result.raw_data[s] = None

\* C12: the raw_data of a fresh verdict has exactly one entry per source
\* enabled at the fan-out, under that source's own registry name, holding that
\* source's own result or the no-data marker.
C12_RawDataKeyedByOwnSource ==
    \A c \in CallIds :
        Fresh(c) =>
            /\ DOMAIN calls[c].result.raw_data = Range(calls[c].tasks)
            /\ \A i \in DOMAIN calls[c].tasks :
                 calls[c].result.raw_data[calls[c].tasks[i]] = calls[c].source_results[i]

\* C13: validate_name called with the empty name is rejected with a validation
\* error: the call has no fan-out, queries no source and returns no verdict.
C13_EmptyNameRejected ==
    \A c \in CallIds :
        calls[c].pc # "idle" /\ calls[c].name = <<>> =>
            /\ calls[c].pc = "raised"
            /\ calls[c].tasks = <<>>
            /\ calls[c].completed = <<>>

\* C14: validate_name of a non-empty name never ends in an exception, whatever
\* the sources answer and whatever the cache does; when it ends, it ends with a
\* verdict.
C14_NeverRaises ==
    \A c \in CallIds :
        calls[c].name # <<>> =>
            /\ calls[c].pc # "raised"
            /\ calls[c].pc = "done" => ~IsException(calls[c].result)

\* C15: validate_batch returns a list as long as names whose i-th element is
\* the verdict that the validate_name coroutine of names[i] produced, in
\* whatever order the coroutines and their source checks finished.
C15_BatchKeepsInputOrder ==
    batch.pc = "done" =>
        /\ Len(batch.results) = Len(batch.names)
        /\ \A i \in DOMAIN batch.names :
             /\ calls[i].name = batch.names[i]
             /\ batch.results[i] = calls[i].result
             /\ batch.results[i].name = batch.names[i]

\* A batch of two different names has returned after the coroutine of the
\* second name ended before that of the first.
C15_Witness ==
    /\ batch.pc = "done"
    /\ Len(batch.names) >= 2
    /\ batch.names[1] # batch.names[2]
    /\ \E p, q \in DOMAIN batch.finished :
         p < q /\ batch.finished[p] = 2 /\ batch.finished[q] = 1

\* What validate_name returns, and what it leaves in the cache table, when it
\* runs alone from start to end while every source s replies world[s].
VerdictAlone(name, table, clock, registry, world) ==
    LET cached_result == _get_cached_result(table, clock, name)
        tasks == EnabledIn(SourceOrder, registry)
        source_results ==
            [i \in DOMAIN tasks |->
                _validate_against_source(name, tasks[i], registry[tasks[i]], world[tasks[i]])]
        result == ProcessResults(InitialResult(name, clock), Zip(SourceOrder, source_results))
    IN  IF Truthy(cached_result) THEN [result |-> cached_result, table |-> table]
        ELSE IF IsException(result) THEN [result |-> result, table |-> table]
        ELSE [result |-> result, table |-> _cache_result(table, clock, result)]

\* The verdicts of validate_name called on the names one after another.
RECURSIVE OneAfterAnother(_, _, _, _, _)
OneAfterAnother(names, table, clock, registry, world) ==
    IF names = <<>> THEN <<>>
    ELSE LET first == VerdictAlone(Head(names), table, clock, registry, world)
         IN  <<first.result>>
             \o OneAfterAnother(Tail(names), first.table, clock, registry, world)

\* C16: with the replies of the sources and the registry fixed, the list that
\* validate_batch returns equals, element by element, the verdicts of
\* validate_name called on the same names one after another at the same clock
\* reading, duplicates and names with the same cache key included.
C16_BatchEqualsSequential ==
    batch.pc = "done" =>
        batch.results = OneAfterAnother(batch.names, batch.table, now, sources, batch.world)

\* A batch of two spellings with the same cache key has returned blocked
\* verdicts, its source checks interleaved, on a database that holds a record
\* under that key.
C16_Witness ==
    /\ batch.pc = "done"
    /\ Len(batch.names) >= 2
    /\ batch.names[1] # batch.names[2]
    /\ _create_name_hash(batch.names[1]) = _create_name_hash(batch.names[2])
    /\ batch.results[1].is_blocked
    /\ \E r \in batch.table : KeyedBy(r, batch.names[1])
    /\ calls[1].completed = <<2, 1>>
    /\ calls[2].completed = <<1, 2>>

\* C17: when enable_source has changed the enabled set while a validate_name
\* was suspended in its fan-out, the call still checks the sources that were
\* enabled when the fan-out started and attributes its results to them: its
\* sources, reasons and raw_data name those sources, each for its own result.
C17_ToggleLeavesCallAlone ==
    \A c \in CallIds :
        ( /\ Fresh(c)
          /\ calls[c].name # <<>>
          /\ calls[c].tasks # <<>>
          /\ {s \in SourceKeys : sources[s].enabled} # Range(calls[c].tasks) )
        => /\ Range(calls[c].completed) = DOMAIN calls[c].tasks
           /\ calls[c].result.sources = BlockingSourcesFrom(c, 1)
           /\ calls[c].result.reasons = BlockingReasonsFrom(c, 1)
           /\ DOMAIN calls[c].result.raw_data = Range(calls[c].tasks)
           /\ \A i \in DOMAIN calls[c].tasks :
                calls[c].result.raw_data[calls[c].tasks[i]] = calls[c].source_results[i]

\* C18: every source check of a validate_name call runs with the API key its
\* source had when the fan-out was set up: each result is one the adapter can
\* give with that key, whatever configure_api_key did in between.
C18_ChecksUseSnapshotConfig ==
    \A c \in CallIds :
        calls[c].pc \in {"fanout", "done", "raised"} /\ calls[c].name # <<>> =>
            \A i \in Range(calls[c].completed) :
                \E reply \in Replies(calls[c].tasks[i]) :
                    calls[c].source_results[i] =
                        _validate_against_source(
                            calls[c].name, calls[c].tasks[i],
                            [sources[calls[c].tasks[i]] EXCEPT
                                !.api_key = calls[c].api_keys[calls[c].tasks[i]]],
                            reply)

C20_NormalizeIdempotent ==
    probe.pc = "twice" => probe.again = probe.normalized

\* The words of a text: its maximal runs of characters other than spaces.
WordsOf(t) ==
    {SubSeq(t, i, j) : i \in 1 .. Len(t), j \in 1 .. Len(t)} \ {<<>>}

IsWordOf(w, t) ==
    \E i \in 1 .. Len(t), j \in 1 .. Len(t) :
        /\ i <= j
        /\ SubSeq(t, i, j) = w
        /\ \A k \in i .. j : t[k] # " "
        /\ i = 1 \/ t[i - 1] = " "
        /\ j = Len(t) \/ t[j + 1] = " "

SharedWords(a, b) == {w \in WordsOf(a) : IsWordOf(w, a) /\ IsWordOf(w, b)}

Contains(a, b) ==
    \E i \in 0 .. (Len(a) - Len(b)) : \A k \in 1 .. Len(b) : a[i + k] = b[k]

RuleEqual(q, r) == _normalize_name(q) = _normalize_name(r)

RuleTwoWords(q, r) ==
    \E v, w \in SharedWords(_normalize_name(q), _normalize_name(r)) : v # w

RuleSubstring(q, r) ==
    \/ Contains(_normalize_name(q), _normalize_name(r))
    \/ Contains(_normalize_name(r), _normalize_name(q))

\* C21: _name_matches is true exactly when the normalized names are equal, or
\* share at least two words, or one contains the other; it is true for
\* "John Smith" against "Smith, John Michael".
C21_MatchRules ==
    probe.pc = "matched" =>
        /\ probe.matches <=>
             \/ RuleEqual(probe.input_name, probe.watchlist_name)
             \/ RuleTwoWords(probe.input_name, probe.watchlist_name)
             \/ RuleSubstring(probe.input_name, probe.watchlist_name)
        /\ probe.input_name = ExampleQuery /\ probe.watchlist_name = ExampleRecord
             => probe.matches

\* "John Smith" has matched "Smith, John Michael", which it neither equals nor
\* contains nor is contained in.
C21_Witness ==
    /\ probe.pc = "matched"
    /\ probe.input_name = ExampleQuery
    /\ probe.watchlist_name = ExampleRecord
    /\ probe.matches
    /\ ~RuleEqual(ExampleQuery, ExampleRecord)
    /\ ~RuleSubstring(ExampleQuery, ExampleRecord)

\* C22: every verdict validate_name returns and every record in the cache has
\* a confidence between 0 and 1 (0 and 100 hundredths), whatever confidences
\* the adapters produce.
C22_ConfidenceInUnitRange ==
    /\ \A c \in CallIds :
         calls[c].pc = "done" =>
             calls[c].result.confidence >= 0 /\ calls[c].result.confidence <= 100
    /\ \A r \in cache : r.confidence >= 0 /\ r.confidence <= 100

\* C23: a fresh verdict is blocked if and only if its sources list is not
\* empty, after any enabling and disabling of sources and whatever the sources
\* answered.
C23_BlockedIffSourcesNamed ==
    \A c \in CallIds :
        Fresh(c) => (calls[c].result.is_blocked <=> calls[c].result.sources # <<>>)

\* A fresh verdict is blocked, with a source disabled and next to a source
\* that did not block.
C23_Witness ==
    \E c \in CallIds :
        /\ Fresh(c)
        /\ calls[c].result.is_blocked
        /\ \E s \in SourceKeys : ~sources[s].enabled
        /\ \E i \in DOMAIN calls[c].tasks : ~Blocking(c, i)

C26_NoKeyNoData ==
    \A c \in CallIds :
        calls[c].pc \in {"fanout", "done", "raised"} =>
            \A i \in Range(calls[c].completed) :
                ( /\ sources[calls[c].tasks[i]].api_key_required
                  /\ ~Truthy(sources[calls[c].tasks[i]].api_key) )
                => calls[c].source_results[i] = None

C28_ResultCarriesRequestedName ==
    \A c \in CallIds :
        calls[c].pc = "done" => calls[c].result.name = calls[c].name

\* A call has returned for a spelling other than the one of the unexpired
\* record the table holds under its key.
C28_Witness ==
    \E c \in CallIds :
        /\ calls[c].pc = "done"
        /\ \E r \in cache :
              /\ KeyedBy(r, calls[c].name)
              /\ r.full_name # calls[c].name
              /\ ~Expired(r, calls[c].started)
              /\ TextGreater(r.expires_at, SqlDatetime(calls[c].started))

C30_RecentValidationsCounted ==
    \A c \in CallIds :
        Fresh(c) =>
            get_validation_stats(cache, validation_logs, now, sources).recent_validations_24h
                >= MaxValidations - remaining

====
